---- MODULE Spec2Model ----
(***************************************************************************)
(* CategoryFeatureGenerator (autogluon/utils/tabular/features/generators/  *)
(* category.py): fitting a per-column category map and applying it.        *)
(*                                                                         *)
(* Cell values are the integers 1..NumValues; their numeric order stands   *)
(* for the lexicographic order of the strings they represent ("a" < "b" <  *)
(* "c").  A Series is a record [dtype, categories, values]: dtype is       *)
(* "object" (categories unused, <<>>) or "category" (categories is the     *)
(* ordered vocabulary, every value is a category or NaN).  A DataFrame is  *)
(* a record [index, data]: index is the number of rows, data maps each     *)
(* column name to its Series.                                              *)
(***************************************************************************)
EXTENDS Integers, Sequences, FiniteSets

VARIABLES
    stateful_categories,      \* self._stateful_categories
    cat_order,                \* self.cat_order
    arg_minimum_cat_count,    \* the minimum_cat_count argument of __init__
    minimum_cat_count,        \* self._minimum_cat_count
    maximum_num_cat,          \* self._maximum_num_cat
    category_map,             \* self.category_map
    features_in,              \* self.features_in
    last_call,                \* "init", "fit" (_fit_transform) or "transform" (_transform)
    builder_calls,            \* calls of _generate_category_map made by the last call
    X_before,                 \* the caller's table when the last call started
    X_after,                  \* the caller's table when the last call returned
    X_out                     \* the table the last call returned

vars == <<stateful_categories, cat_order, arg_minimum_cat_count, minimum_cat_count,
          maximum_num_cat, category_map, features_in, last_call, builder_calls,
          X_before, X_after, X_out>>

config == <<stateful_categories, cat_order, arg_minimum_cat_count, minimum_cat_count,
            maximum_num_cat>>

-----------------------------------------------------------------------------
(* Bounds *)

NumValues == 2      \* distinct cell values of the enumerated columns
MaxRows == 3        \* rows of the enumerated fitting tables (builder specification)
LifeRows == 2       \* rows of the enumerated tables (lifecycle specification)
MaxMinCount == 2    \* largest minimum_cat_count argument
MaxNumCat == 2      \* largest maximum_num_cat argument

-----------------------------------------------------------------------------
(* Python / pandas values *)

\* Python's None; an optional integer k is <<k>>
None == <<>>

\* a missing cell
NaN == 0

Values == 1..NumValues

SeqToSet(s) == {s[i] : i \in DOMAIN s}

IndexOf(s, v) == CHOOSE i \in DOMAIN s : s[i] = v

RECURSIVE SortedSeq(_)
\* list.sort() / sorted unique values: the elements of S in ascending order
SortedSeq(S) ==
    IF S = {} THEN <<>>
    ELSE LET m == CHOOSE x \in S : \A y \in S : x <= y
         IN  <<m>> \o SortedSeq(S \ {m})

\* all orderings of the set S
SeqPerms(S) ==
    {p \in [1..Cardinality(S) -> S] : \A i, j \in 1..Cardinality(S) : i # j => p[i] # p[j]}

\* all sequences of distinct elements of S
DistinctSeqs(S) == UNION {SeqPerms(T) : T \in SUBSET S}

Series(dtype, categories, values) ==
    [dtype |-> dtype, categories |-> categories, values |-> values]

\* DataFrame(index=X.index): no columns, same rows
EmptyFrame(X) == [index |-> X.index, data |-> <<>>]

\* Series.astype('category'): an object column gets its sorted unique non-missing
\* values as categories; a categorical column keeps its dtype (unused categories
\* included)
AsTypeCategory(s) ==
    IF s.dtype = "category" THEN s
    ELSE Series("category", SortedSeq(SeqToSet(s.values) \ {NaN}), s.values)

\* DataFrame.astype('category'): a new frame, every column coerced
FrameAsTypeCategory(X) ==
    [index |-> X.index, data |-> [c \in DOMAIN X.data |-> AsTypeCategory(X.data[c])]]

\* the integer codes of a categorical Series: position in categories, -1 when missing
Codes(s) ==
    [i \in DOMAIN s.values |->
        IF s.values[i] = NaN THEN -1 ELSE IndexOf(s.categories, s.values[i]) - 1]

\* Series.value_counts() of a categorical Series: one count per category (a
\* category that no row holds counts 0), missing cells not counted
ValueCounts(s) ==
    [v \in SeqToSet(s.categories) |->
        Cardinality({i \in DOMAIN s.values : s.values[i] = v})]

\* fault variant of RankChoices: the ranking sorted by descending count
RankChoicesDescending(s) ==
    LET counts == ValueCounts(s)
    IN  {r \in SeqPerms(SeqToSet(s.categories)) :
            \A i \in 1..(Len(r) - 1) : counts[r[i]] >= counts[r[i + 1]]}

\* value_counts().sort_values(ascending=True): the categories by ascending count;
\* the order among equal counts is whatever the sort leaves, so every order is allowed
RankChoices(s) ==
    LET counts == ValueCounts(s)
    IN  {r \in SeqPerms(SeqToSet(s.categories)) :
            \A i \in 1..(Len(r) - 1) : counts[r[i]] <= counts[r[i + 1]]}

\* fault variant of FilterMinCount: a strict comparison
FilterMinCountStrict(rank, counts, k) == SelectSeq(rank, LAMBDA v : counts[v] > k)

\* rank = rank[rank >= self._minimum_cat_count]
FilterMinCount(rank, counts, k) == SelectSeq(rank, LAMBDA v : counts[v] >= k)

\* rank = rank[-self._maximum_num_cat:] (Python slice: a start of -0 is 0, a
\* negative start counts from the end and is clamped to the sequence)
TailSlice(rank, n) ==
    LET len == Len(rank)
        start == IF n > 0 THEN (IF len - n > 0 THEN len - n ELSE 0)
                 ELSE (IF -n < len THEN -n ELSE len)
    IN  SubSeq(rank, start + 1, len)

\* fault variant of ReorderCategoryList: the 'original' branch is missing
ReorderKeepCountOrder(category_list, original_cat_order, order) ==
    IF Len(category_list) > 1 /\ order = "alphanumeric"
    THEN SortedSeq(SeqToSet(category_list))
    ELSE category_list

\* the reordering of the surviving categories, done when more than one survives
ReorderCategoryList(category_list, original_cat_order, order) ==
    IF Len(category_list) > 1
    THEN CASE order = "original" ->
                  SelectSeq(original_cat_order, LAMBDA c : c \in SeqToSet(category_list))
           [] order = "alphanumeric" -> SortedSeq(SeqToSet(category_list))
           [] OTHER -> category_list
    ELSE category_list

\* Series.astype(CategoricalDtype(categories=category_list)): the new vocabulary,
\* every value outside it becomes missing
AsTypeCategoricalDtype(s, category_list) ==
    Series("category", category_list,
           [i \in DOMAIN s.values |->
               IF s.values[i] \in SeqToSet(category_list) THEN s.values[i] ELSE NaN])

\* fault variant of SetCategories: a value outside the vocabulary gets the first code
SetCategoriesUnseenToFirst(s, new_categories) ==
    Series("category", new_categories,
           [i \in DOMAIN s.values |->
               IF s.values[i] \in SeqToSet(new_categories) \/ s.values[i] = NaN
                  \/ new_categories = <<>>
               THEN (IF s.values[i] \in SeqToSet(new_categories) THEN s.values[i] ELSE NaN)
               ELSE new_categories[1]])

\* fault variant of SetCategories: values outside the vocabulary are appended to it
SetCategoriesAddUnseen(s, new_categories) ==
    LET unseen == (SeqToSet(s.values) \ {NaN}) \ SeqToSet(new_categories)
    IN  Series("category", new_categories \o SortedSeq(unseen), s.values)

\* s.cat.set_categories(new_categories, inplace=True): the vocabulary is replaced,
\* every value outside it becomes missing
SetCategories(s, new_categories) ==
    Series("category", new_categories,
           [i \in DOMAIN s.values |->
               IF s.values[i] \in SeqToSet(new_categories) THEN s.values[i] ELSE NaN])

-----------------------------------------------------------------------------
(* __init__ *)

\* if minimum_cat_count is not None and minimum_cat_count <= 1: minimum_cat_count = None
NormalizeMinCount(k) ==
    IF k # None /\ k[1] <= 1 THEN None ELSE k

CatOrders == {"original", "alphanumeric", "count"}

\* the state a constructed generator is in
Constructed(stateful, order, min_count, max_cat) ==
    /\ stateful_categories = stateful
    /\ cat_order = order
    /\ arg_minimum_cat_count = min_count
    /\ minimum_cat_count = NormalizeMinCount(min_count)
    /\ maximum_num_cat = max_cat
    /\ category_map = None
    /\ features_in = {}
    /\ last_call = "init"
    /\ builder_calls = 0
    /\ X_before = None
    /\ X_after = None
    /\ X_out = None

-----------------------------------------------------------------------------
(* _generate_category_map *)

\* the loop body for one column: X_category[column] after the loop, given the
\* ascending-count ranking of its categories
GenerateCategoryMapColumn(s, rank) ==
    IF cat_order = "count" \/ minimum_cat_count # None \/ maximum_num_cat # None
    THEN LET counts == ValueCounts(s)
             r1 == IF minimum_cat_count # None
                   THEN FilterMinCount(rank, counts, minimum_cat_count[1]) ELSE rank
             r2 == IF maximum_num_cat # None
                   THEN TailSlice(r1, maximum_num_cat[1]) ELSE r1
             category_list == ReorderCategoryList(r2, s.categories, cat_order)
         IN  AsTypeCategoricalDtype(s, category_list)
    ELSE IF cat_order = "alphanumeric"
    THEN AsTypeCategoricalDtype(s, SortedSeq(SeqToSet(s.categories)))
    ELSE s

\* the rankings of all columns of the coerced table X_category
RankChoicesFrame(X_category) ==
    LET cols == DOMAIN X_category.data
    IN  {ranks \in [cols -> UNION {RankChoices(X_category.data[c]) : c \in cols}] :
            \A c \in cols : ranks[c] \in RankChoices(X_category.data[c])}

\* fault variant of GenerateCategoryMap: every column records the vocabulary of
\* the last column of the loop
GenerateCategoryMapLastColumn(X, features, ranks) ==
    IF features # {}
    THEN LET X_category == FrameAsTypeCategory(X)
             fitted == [c \in DOMAIN X_category.data |->
                           GenerateCategoryMapColumn(X_category.data[c], ranks[c])]
             last == CHOOSE c \in DOMAIN fitted : \A d \in DOMAIN fitted : d = c \/ d = "f1"
         IN  [X_category |-> [index |-> X.index, data |-> fitted],
              category_map |-> [c \in DOMAIN fitted |-> fitted[last].categories]]
    ELSE [X_category |-> EmptyFrame(X), category_map |-> None]

\* _generate_category_map(X) with self.features_in = features: (X_category, category_map)
GenerateCategoryMap(X, features, ranks) ==
    IF features # {}
    THEN LET X_category == FrameAsTypeCategory(X)
             fitted == [c \in DOMAIN X_category.data |->
                           GenerateCategoryMapColumn(X_category.data[c], ranks[c])]
         IN  [X_category |-> [index |-> X.index, data |-> fitted],
              category_map |-> [c \in DOMAIN fitted |-> fitted[c].categories]]
    ELSE [X_category |-> EmptyFrame(X), category_map |-> None]

-----------------------------------------------------------------------------
(* _generate_features_category *)

\* _generate_features_category(X) with self.features_in = features and
\* self.category_map = cmap: the returned table
GenerateFeaturesCategory(X, features, cmap) ==
    IF features # {}
    THEN LET X_category == FrameAsTypeCategory(X)
         IN  IF cmap # None
             THEN [index |-> X.index,
                   data |-> [c \in DOMAIN X_category.data |->
                                IF c \in DOMAIN cmap
                                THEN SetCategories(X_category.data[c], cmap[c])
                                ELSE X_category.data[c]]]
             ELSE X_category
    ELSE EmptyFrame(X)

-----------------------------------------------------------------------------
(* _fit_transform and _transform *)

\* fault variant of FitTransform: the map is built whatever the stateful flag
FitTransformIgnoringStatefulFlag(X) ==
    /\ features_in' = DOMAIN X.data
    /\ \E ranks \in RankChoicesFrame(FrameAsTypeCategory(X)) :
           LET built == GenerateCategoryMap(X, DOMAIN X.data, ranks)
           IN  /\ X_out' = built.X_category
               /\ category_map' = built.category_map
    /\ builder_calls' = 1
    /\ last_call' = "fit"
    /\ X_before' = X
    /\ X_after' = X
    /\ UNCHANGED config

\* _fit_transform(X); the caller has set self.features_in to the columns of X
FitTransform(X) ==
    /\ features_in' = DOMAIN X.data
    /\ IF stateful_categories
       THEN /\ \E ranks \in RankChoicesFrame(FrameAsTypeCategory(X)) :
                  LET built == GenerateCategoryMap(X, DOMAIN X.data, ranks)
                  IN  /\ X_out' = built.X_category
                      /\ category_map' = built.category_map
            /\ builder_calls' = 1
       ELSE /\ X_out' = GenerateFeaturesCategory(X, DOMAIN X.data, category_map)
            /\ builder_calls' = 0
            /\ UNCHANGED category_map
    /\ last_call' = "fit"
    /\ X_before' = X
    /\ X_after' = X
    /\ UNCHANGED config

\* cmap with the values of X it does not hold appended to each vocabulary
ExtendedVocabulary(cmap, X) ==
    IF cmap = None THEN None
    ELSE [c \in DOMAIN cmap |->
             IF c \in DOMAIN X.data
             THEN cmap[c] \o SortedSeq((SeqToSet(X.data[c].values) \ {NaN}) \ SeqToSet(cmap[c]))
             ELSE cmap[c]]

\* fault variant of Transform: the stored map learns the unseen values
TransformExtendingMap(X) ==
    /\ last_call # "init"
    /\ DOMAIN X.data = features_in
    /\ X_out' = GenerateFeaturesCategory(X, features_in, category_map)
    /\ category_map' = ExtendedVocabulary(category_map, X)
    /\ builder_calls' = 0
    /\ last_call' = "transform"
    /\ X_before' = X
    /\ X_after' = X
    /\ UNCHANGED <<config, features_in>>

\* fault variant of Transform: the builder runs again on the new table
TransformRebuilding(X) ==
    /\ last_call # "init"
    /\ DOMAIN X.data = features_in
    /\ \E ranks \in RankChoicesFrame(FrameAsTypeCategory(X)) :
           LET built == GenerateCategoryMap(X, features_in, ranks)
           IN  /\ X_out' = built.X_category
               /\ category_map' = IF stateful_categories THEN built.category_map
                                  ELSE category_map
    /\ builder_calls' = 1
    /\ last_call' = "transform"
    /\ X_before' = X
    /\ X_after' = X
    /\ UNCHANGED <<config, features_in>>

\* fault variant of Transform: the recoding is done on the caller's table
TransformInPlace(X) ==
    /\ last_call # "init"
    /\ DOMAIN X.data = features_in
    /\ X_out' = GenerateFeaturesCategory(X, features_in, category_map)
    /\ builder_calls' = 0
    /\ last_call' = "transform"
    /\ X_before' = X
    /\ X_after' = X_out'
    /\ UNCHANGED <<config, features_in, category_map>>

\* _transform(X) on a fitted generator; X holds the fitted columns
Transform(X) ==
    /\ last_call # "init"
    /\ DOMAIN X.data = features_in
    /\ X_out' = GenerateFeaturesCategory(X, features_in, category_map)
    /\ builder_calls' = 0
    /\ last_call' = "transform"
    /\ X_before' = X
    /\ X_after' = X
    /\ UNCHANGED <<config, features_in, category_map>>

-----------------------------------------------------------------------------
(* Inputs *)

\* the object columns of at most n rows
ObjectColumns(n) ==
    {Series("object", <<>>, v) : v \in UNION {[1..r -> Values \cup {NaN}] : r \in 0..n}}

\* the already-categorical columns of at most n rows
CategoryColumns(n) ==
    UNION {{Series("category", cats, v) :
               v \in UNION {[1..r -> SeqToSet(cats) \cup {NaN}] : r \in 0..n}} :
           cats \in DistinctSeqs(Values)}

OneColumnFrame(s) == [index |-> Len(s.values), data |-> [c \in {"f1"} |-> s]]

TwoColumnFrame(s1, s2) ==
    [index |-> Len(s1.values), data |-> [c \in {"f1", "f2"} |-> IF c = "f1" THEN s1 ELSE s2]]

NoColumnFrame(n) == [index |-> n, data |-> <<>>]

\* the column of the documented scenarios: ["a","a","b","c","c","c"]
ScenarioColumn == Series("object", <<>>, <<1, 1, 2, 3, 3, 3>>)

BuilderTables ==
    {OneColumnFrame(s) : s \in ObjectColumns(MaxRows) \cup CategoryColumns(MaxRows)}
    \cup {OneColumnFrame(ScenarioColumn),
          OneColumnFrame(Series("category", <<3, 1, 2>>, <<2, 2, 3, NaN>>)),
          TwoColumnFrame(Series("object", <<>>, <<2, 1, 2>>),
                         Series("category", <<2, 3, 1>>, <<1, 1, NaN>>))}
    \cup {NoColumnFrame(n) : n \in 0..MaxRows}

LifeTables ==
    {OneColumnFrame(s) : s \in ObjectColumns(LifeRows)}
    \cup {OneColumnFrame(Series("category", <<2, 1>>, <<1, NaN>>)),
          OneColumnFrame(Series("category", <<2, 1>>, <<2, 1>>)),
          OneColumnFrame(Series("object", <<>>, <<1, 1, 2>>)),
          OneColumnFrame(Series("object", <<>>, <<2, 3, 1>>)),
          TwoColumnFrame(Series("object", <<>>, <<2, 1>>), Series("object", <<>>, <<1, 1>>)),
          TwoColumnFrame(Series("object", <<>>, <<1, 2>>),
                         Series("category", <<2, 1>>, <<2, 2>>))}
    \cup {NoColumnFrame(n) : n \in 0..LifeRows}

Optional(S) == {None} \cup {<<k>> : k \in S}

-----------------------------------------------------------------------------
(* Lifecycle specification: one generator, any sequence of fits and transforms *)

Init ==
    \E stateful \in BOOLEAN, order \in CatOrders,
       min_count \in Optional({2}), max_cat \in Optional({1}) :
        Constructed(stateful, order, min_count, max_cat)

Next ==
    \/ \E X \in LifeTables : FitTransform(X)
    \/ \E X \in LifeTables : Transform(X)

Spec == Init /\ [][Next]_vars

(* Builder specification: one stateful fit of every configuration on every table *)

InitBuilder ==
    \E order \in CatOrders,
       min_count \in Optional(0..MaxMinCount), max_cat \in Optional(0..MaxNumCat) :
        Constructed(TRUE, order, min_count, max_cat)

NextBuilder ==
    /\ last_call = "init"
    /\ \E X \in BuilderTables : FitTransform(X)

SpecBuilder == InitBuilder /\ [][NextBuilder]_vars

-----------------------------------------------------------------------------
(* What the properties speak of *)

\* a stateful fit has just returned a map
FitDone == last_call = "fit" /\ stateful_categories /\ category_map # None

\* column c of the table of the last call
InputColumn(c) == X_before.data[c]

\* the number of rows of the last call's table that hold v in column c
Frequency(c, v) ==
    Cardinality({i \in DOMAIN InputColumn(c).values : InputColumn(c).values[i] = v})

\* the values column c of the last call's table brings: those in its rows and,
\* for a categorical column, those its dtype declares
KnownValues(c) ==
    (SeqToSet(InputColumn(c).values) \cup SeqToSet(InputColumn(c).categories)) \ {NaN}

\* the distinct non-missing values of a column in the order of their first occurrence
FirstOccurrenceOrder(values) ==
    LET firsts == {i \in DOMAIN values :
                      values[i] # NaN /\ \A j \in 1..(i - 1) : values[j] # values[i]}
    IN  [k \in 1..Cardinality(firsts) |->
            values[CHOOSE i \in firsts : Cardinality({j \in firsts : j < i}) = k - 1]]

\* the elements of full that vocabulary holds, in full's order
Restrict(full, vocabulary) == SelectSeq(full, LAMBDA v : v \in SeqToSet(vocabulary))

\* the values of column c that pass the minimum-count filter of the constructor
Survivors(c) ==
    IF arg_minimum_cat_count # None /\ arg_minimum_cat_count[1] > 1
    THEN {v \in KnownValues(c) : Frequency(c, v) >= arg_minimum_cat_count[1]}
    ELSE KnownValues(c)

Min(a, b) == IF a <= b THEN a ELSE b

-----------------------------------------------------------------------------
(* Builder properties (SpecBuilder) *)

\* C2 as claimed: with cat_order = 'original' every fitted vocabulary lists the
\* values that occur in the fitting column in the order of their first occurrence.
C2_FirstOccurrenceOrder ==
    (FitDone /\ cat_order = "original") =>
        \A c \in features_in :
            Restrict(category_map[c], FirstOccurrenceOrder(InputColumn(c).values))
                = Restrict(FirstOccurrenceOrder(InputColumn(c).values), category_map[c])

\* C2 as amended: with cat_order = 'original' every fitted vocabulary lists its
\* values in the order of the column's categorical coercion: ascending sorted
\* order for an object column (of mutually comparable values), the declared
\* category order for a column that is already categorical.
C2_CoercionOrder ==
    (FitDone /\ cat_order = "original") =>
        \A c \in features_in :
            IF InputColumn(c).dtype = "object"
            THEN \A i, j \in DOMAIN category_map[c] :
                     i < j => category_map[c][i] < category_map[c][j]
            ELSE category_map[c] = Restrict(InputColumn(c).categories, category_map[c])

\* C2 witness: a fit with a threshold whose object column has two surviving values first seen in another order
C2_Witness ==
    /\ FitDone /\ cat_order = "original"
    /\ minimum_cat_count # None \/ maximum_num_cat # None
    /\ \E c \in features_in :
           /\ InputColumn(c).dtype = "object"
           /\ Len(category_map[c]) >= 2
           /\ FirstOccurrenceOrder(InputColumn(c).values) # category_map[c]

\* C3: with minimum_cat_count = k > 1 no value of frequency below k is in the
\* fitted vocabulary and every value of frequency at least k is in it unless
\* maximum_num_cat is set and fewer values are kept than survive; with
\* minimum_cat_count <= 1 nothing is filtered by count.
C3_MinimumCount ==
    FitDone =>
        \A c \in features_in :
            LET vocabulary == SeqToSet(category_map[c])
                k == arg_minimum_cat_count
            IN  /\ (k # None /\ k[1] > 1) =>
                        /\ \A v \in vocabulary : Frequency(c, v) >= k[1]
                        /\ (maximum_num_cat = None
                             \/ (maximum_num_cat # None
                                 /\ maximum_num_cat[1] >= Cardinality(Survivors(c))
                                 /\ maximum_num_cat[1] >= 1))
                            => \A v \in KnownValues(c) :
                                   Frequency(c, v) >= k[1] => v \in vocabulary
                /\ (k # None /\ k[1] <= 1 /\ maximum_num_cat = None) =>
                        vocabulary = KnownValues(c)

\* C3 witness: a fit with minimum_cat_count = 2 that drops a value seen once and keeps one seen twice
C3_Witness ==
    /\ FitDone
    /\ arg_minimum_cat_count = <<2>>
    /\ \E c \in features_in :
           /\ \E v \in KnownValues(c) : Frequency(c, v) = 1
           /\ \E v \in SeqToSet(category_map[c]) : Frequency(c, v) = 2

\* C4 as claimed: with maximum_num_cat = n every fitted vocabulary has at most n
\* values and holds exactly the n most frequent values that passed the
\* minimum-count filter (all of them when fewer than n passed).
C4_MaximumNumCat ==
    (FitDone /\ maximum_num_cat # None) =>
        \A c \in features_in :
            LET vocabulary == SeqToSet(category_map[c])
                n == maximum_num_cat[1]
            IN  /\ Len(category_map[c]) <= n
                /\ Len(category_map[c]) = Min(n, Cardinality(Survivors(c)))
                /\ vocabulary \subseteq Survivors(c)
                /\ \A v \in vocabulary : \A w \in Survivors(c) \ vocabulary :
                       Frequency(c, v) >= Frequency(c, w)

\* C5: with cat_order = 'count' every fitted vocabulary is in non-decreasing
\* order of frequency, whatever the thresholds; the column [a,a,b,c,c,c] without
\* thresholds gives [b,a,c].
C5_CountOrder ==
    (FitDone /\ cat_order = "count") =>
        \A c \in features_in :
            /\ \A i, j \in DOMAIN category_map[c] :
                   i < j => Frequency(c, category_map[c][i]) <= Frequency(c, category_map[c][j])
            /\ (InputColumn(c) = ScenarioColumn /\ minimum_cat_count = None
                    /\ maximum_num_cat = None)
                   => category_map[c] = <<2, 1, 3>>

\* C5 witness: the scenario column fitted in count order without thresholds
C5_Witness ==
    /\ FitDone /\ cat_order = "count"
    /\ minimum_cat_count = None /\ maximum_num_cat = None
    /\ \E c \in features_in : InputColumn(c) = ScenarioColumn /\ Len(category_map[c]) = 3

\* C10 as claimed: every value of every fitted vocabulary occurs in at least one
\* row of its column of the fitting table.
C10_OnlyOccurringValues ==
    FitDone =>
        \A c \in features_in :
            \A v \in SeqToSet(category_map[c]) : Frequency(c, v) >= 1

\* C10 as amended: every value of every fitted vocabulary occurs in at least one
\* row of its column of the fitting table or, when that column is already
\* categorical on input, is a category its dtype declares; a value with zero
\* occurrences is recorded only in the latter case, and only when no minimum
\* count is in force.
C10_OnlyKnownValues ==
    FitDone =>
        \A c \in features_in :
            \A v \in SeqToSet(category_map[c]) :
                \/ Frequency(c, v) >= 1
                \/ /\ InputColumn(c).dtype = "category"
                   /\ v \in SeqToSet(InputColumn(c).categories)
                   /\ minimum_cat_count = None

\* C10 witness: a fit of a categorical column that records a category no row holds, beside an object column
C10_Witness ==
    /\ FitDone
    /\ \E c \in features_in :
           /\ InputColumn(c).dtype = "category"
           /\ \E v \in SeqToSet(category_map[c]) : Frequency(c, v) = 0
    /\ \E c \in features_in :
           /\ InputColumn(c).dtype = "object"
           /\ category_map[c] # <<>>

-----------------------------------------------------------------------------
(* Lifecycle properties (Spec) *)

\* a transform has just applied a stored map
Applied == last_call = "transform" /\ category_map # None

\* C1: after a stateful fit on a non-empty column set, the vocabulary of every
\* fitted column in the output of the fit and of every later transform is exactly
\* category_map[c], a value's code is its position in category_map[c] in both, and
\* transforming the fitting table again gives the table the fit returned.
C1_ConsistentIndices ==
    (stateful_categories /\ category_map # None) =>
        /\ \A c \in features_in :
               /\ X_out.data[c].categories = category_map[c]
               /\ \A i \in DOMAIN X_out.data[c].values :
                      X_out.data[c].values[i] # NaN =>
                          /\ X_out.data[c].values[i] = InputColumn(c).values[i]
                          /\ Codes(X_out.data[c])[i]
                                 = IndexOf(category_map[c], InputColumn(c).values[i]) - 1
        /\ last_call = "fit" =>
               GenerateFeaturesCategory(X_before, features_in, category_map) = X_out

\* C1 witness: a transform that gives code 1 to a cell and meets a value outside the vocabulary
C1_Witness ==
    /\ Applied /\ stateful_categories
    /\ \E c \in features_in : \E i \in DOMAIN X_out.data[c].values :
           /\ Codes(X_out.data[c])[i] = 1
           /\ \E j \in DOMAIN InputColumn(c).values :
                  InputColumn(c).values[j] \notin SeqToSet(category_map[c]) \cup {NaN}

\* C6: a transform with a stored map gives the missing marker in exactly the
\* cells whose value is not in the column's fitted vocabulary and the
\* vocabulary code of the value in every other cell.
C6_UnseenBecomesMissing ==
    Applied =>
        \A c \in features_in : \A i \in DOMAIN InputColumn(c).values :
            LET v == InputColumn(c).values[i]
            IN  IF v \in SeqToSet(category_map[c])
                THEN Codes(X_out.data[c])[i] = IndexOf(category_map[c], v) - 1
                ELSE Codes(X_out.data[c])[i] = -1

\* C6 witness: a transform after a thresholded fit with an unseen cell and a seen cell
C6_Witness ==
    /\ Applied
    /\ minimum_cat_count # None \/ maximum_num_cat # None
    /\ \E c \in features_in : \E i, j \in DOMAIN InputColumn(c).values :
           /\ InputColumn(c).values[i] \notin SeqToSet(category_map[c]) \cup {NaN}
           /\ Codes(X_out.data[c])[i] = -1
           /\ InputColumn(c).values[j] \in SeqToSet(category_map[c])

\* C7: a transform call leaves the stored category_map as it was (same values,
\* same order) and leaves the caller's table as it was passed.
C7_TransformReadsOnly ==
    [][last_call' = "transform" => (category_map' = category_map /\ X_after' = X_before')]_vars

\* C7 witness: a transform of a table with an unseen value that returned a recoded copy
C7_Witness ==
    /\ Applied
    /\ X_after = X_before
    /\ X_out # X_before
    /\ \E c \in features_in : \E i \in DOMAIN InputColumn(c).values :
           InputColumn(c).values[i] \notin SeqToSet(category_map[c]) \cup {NaN}

\* C8 as claimed: once category_map has been assigned it is never assigned again,
\* whatever _fit_transform and _transform calls follow.
C8_BuiltOnce ==
    [][category_map # None => category_map' = category_map]_vars

\* C8 as amended: a transform call never invokes the builder; category_map changes
\* only in a _fit_transform call of a stateful instance, which invokes the builder
\* exactly once and assigns what it built, also when a map was assigned before.
C8_BuiltOncePerFit ==
    [][/\ last_call' = "transform" => builder_calls' = 0
       /\ category_map' # category_map =>
              (last_call' = "fit" /\ stateful_categories /\ builder_calls' = 1)
       /\ (last_call' = "fit" /\ stateful_categories) => builder_calls' = 1]_vars

\* C8 witness: a transform of a stateful fitted instance that returned columns
C8_Witness ==
    /\ Applied /\ stateful_categories
    /\ builder_calls = 0
    /\ X_out # EmptyFrame(X_before)

\* C9: in stateless mode category_map is None in every state, and the output of
\* every fit and transform is the categorical coercion of that call's own table:
\* the same cells, and as vocabulary the table's own values.
C9_StatelessKeepsNoMap ==
    ~stateful_categories =>
        /\ category_map = None
        /\ last_call # "init" =>
               /\ X_out.index = X_before.index
               /\ DOMAIN X_out.data = DOMAIN X_before.data
               /\ \A c \in DOMAIN X_before.data :
                      /\ X_out.data[c].values = InputColumn(c).values
                      /\ SeqToSet(X_out.data[c].categories) = KnownValues(c)

\* C9 witness: a stateless transform whose output column has a two-value vocabulary
C9_Witness ==
    /\ ~stateful_categories
    /\ last_call = "transform"
    /\ \E c \in DOMAIN X_before.data : Len(X_out.data[c].categories) = 2

====
